---- MODULE Spec2Model ----
(***************************************************************************)
(* The retrieval-augmented answer pipeline of ai_agent_service: startup    *)
(* (dimension guard), the layered pipeline (routes -> rag.controller ->    *)
(* services, entry point index.ts) and the monolithic rag.ts that is still *)
(* shipped as the rollback entry point.                                    *)
(*                                                                         *)
(* A request is a sequence of suspension points (embed, retrieve, filter,  *)
(* [fetch], generate); everything the handler does between two awaits is   *)
(* one action.  External collaborators (embedding provider, generative     *)
(* provider, vector store) answer nondeterministically from small sets.    *)
(***************************************************************************)
EXTENDS Integers, Sequences, FiniteSets, TLC

\* ---------------------------------------------------------------- bounds
\* Largest corpus (rows of document_chunks); passages are numbered 1..n.
MaxCorpus == 6
\* Longest relevant_documents list the filter model replies with.
MaxSel == 2
\* Largest embedding width (stored column width and model output width).
MaxDim == 2

\* ----------------------------------------------------- program constants
\* RAG_CONFIG.topK of the layered pipeline.
TopK == 4
\* TOP_K of rag.ts.
TOP_K == 5
\* originalChunks.slice(0, 2): the size of the fallback prefix.
FallbackSize == 2
\* data_checker "selects up to 2 relevant documents": the prompt's cap
SelectionCap == 2
NO_ANSWER_MESSAGE == "Esta pregunta debe ser contestada por un humano."
GenericLogica == "Respuesta generada directamente."

\* JavaScript's undefined, where a string or boolean is expected.
Undefined == "undefined"
JTrue == "true"
JFalse == "false"

Reqs == {"r1", "r2"}
Routes == {"/ask", "/v1/resolve"}

\* ------------------------------------------------------------- sequences
RECURSIVE SeqsUpTo(_, _)
SeqsUpTo(S, n) ==
  IF n = 0 THEN {<<>>}
  ELSE LET shorter == SeqsUpTo(S, n - 1)
       IN  shorter \cup {Append(s, x) : s \in {t \in shorter : Len(t) = n - 1}, x \in S}

Range(s) == {s[i] : i \in DOMAIN s}

\* Array.prototype.slice(0, end)
SliceFromStart(s, end) == SubSeq(s, 1, IF Len(s) < end THEN Len(s) ELSE end)

ChunkIds(chunks) == [i \in DOMAIN chunks |-> chunks[i].chunk_id]

\* ------------------------------------------------------------ the corpus
\* An identifier no passage of any corpus carries (a model-invented one).
InventedId == MaxCorpus + 1

\* A request that carries no JSON body: express.json() parses nothing and
\* Express 5 leaves req.body undefined.
NoBody == "nobody"

\* Questions as requests carry them: no body at all, or a body whose question
\* is missing, empty, blank, or text.
QuestionInputs == {NoBody, Undefined, "", "   ", "q1", "q2"}

\* String.prototype.trim
Trim(text) == IF text = "   " THEN "" ELSE text

\* !question?.trim()
IsMissingOrEmpty(question) == question = Undefined \/ Trim(question) = ""

\* The embedding model: a vector of the model's width for a text.  The first
\* component places the text among the passages; the others are filler that
\* differs by position, so that a truncated vector is a proper prefix.
QuestionAnchor(question) == IF question = "q2" THEN MaxCorpus + 1 ELSE 0

ModelOutput(question, width) ==
  [i \in 1..width |-> IF i = 1 THEN QuestionAnchor(question) ELSE i]

\* embedding <=> vector: the store's distance of passage id to a query vector.
Distance(embedding, id) ==
  IF embedding[1] >= id THEN embedding[1] - id ELSE id - embedding[1]

\* SELECT ... 1 - (embedding <=> v) AS similarity
Row(embedding, id) == [chunk_id |-> id, similarity |-> 1 - Distance(embedding, id)]

\* ORDER BY embedding <=> v LIMIT topK
RECURSIVE OrderByDistance(_, _, _)
OrderByDistance(embedding, ids, limit) ==
  IF ids = {} \/ limit = 0 THEN <<>>
  ELSE LET nearest == CHOOSE i \in ids :
                        \A j \in ids : Distance(embedding, i) <= Distance(embedding, j)
       IN  <<Row(embedding, nearest)>>
             \o OrderByDistance(embedding, ids \ {nearest}, limit - 1)

\* Mutant of retrieveChunks: the first topK rows in table order, whatever the
\* query vector.
retrieveChunksInTableOrder(embedding, topK, rows) ==
  OrderByDistance(<<0>>, rows, topK)

retrieveChunks(embedding, topK, rows) == OrderByDistance(embedding, rows, topK)

\* Mutant of fetchChunksByIds: a row comes back for every identifier asked
\* for, stored or not.
fetchChunksByIdsEcho(ids, rows) ==
  IF Len(ids) = 0 THEN {} ELSE {[chunk_id |-> i, similarity |-> 0] : i \in Range(ids)}

\* SELECT ... 0 AS similarity ... WHERE chunk_id = ANY(ids): the rows found, as a
\* set; the store returns them in an order of its own choosing.
fetchChunksByIds(ids, rows) ==
  IF Len(ids) = 0 THEN {} ELSE {[chunk_id |-> i, similarity |-> 0] : i \in Range(ids) \cap rows}

\* Every ordering of a finite set of rows.
RECURSIVE Orderings(_)
Orderings(S) ==
  IF S = {} THEN {<<>>}
  ELSE UNION {{<<x>> \o rest : rest \in Orderings(S \ {x})} : x \in S}

\* --------------------------------------------------- generative provider
\* A reply of the generative model is text.  Its content is one of: the
\* literal null, nothing, text that is not JSON, or a JSON value; it may come
\* wrapped in Markdown code fences.

\* relevant_documents of a parsed reply: absent, JSON null, a number, a string,
\* or an array of entries.
NoDocuments == [tag |-> "absent", items |-> <<>>]

\* What runDataChecker returns for "nothing relevant".
NullDecision == [type |-> "null", rd |-> NoDocuments]

\* An entry of relevant_documents: {id, reason}, an object without id, or null.
DocEntry(id) == [kind |-> "doc", id |-> id]
NoIdEntry == [kind |-> "noid", id |-> InventedId]
NullEntry == [kind |-> "null", id |-> InventedId]

\* Identifiers the filter model names: those of all passages a corpus can
\* hold, and an invented one.
SelIds == (1..MaxCorpus) \cup {InventedId}

Entries == {DocEntry(i) : i \in SelIds} \cup {NoIdEntry, NullEntry}

\* JSON values the filter model replies with (other than null).
JsonDecisions ==
  {[type |-> "scalar", rd |-> NoDocuments]}
    \cup {[type |-> "object", rd |-> [tag |-> t, items |-> <<>>]] :
            t \in {"absent", "null", "number", "string"}}
    \cup {[type |-> "object", rd |-> [tag |-> "array", items |-> s]] :
            s \in SeqsUpTo(Entries, MaxSel)}

FilterReplies ==
  {[fenced |-> f, text |-> t, value |-> NullDecision] :
     f \in BOOLEAN, t \in {"null", "", "garbage"}}
    \cup {[fenced |-> f, text |-> "json", value |-> v] :
            f \in BOOLEAN, v \in JsonDecisions}

\* JSON values the answer model replies with (other than null).
NullAnswer == [type |-> "null", respuesta |-> Undefined, logica |-> Undefined,
               docuementacion |-> Undefined, handoff |-> Undefined]

JsonAnswers ==
  {[type |-> "scalar", respuesta |-> Undefined, logica |-> Undefined,
    docuementacion |-> Undefined, handoff |-> Undefined]}
    \cup {[type |-> "object", respuesta |-> a, logica |-> "razon",
           docuementacion |-> "cita", handoff |-> h] :
            a \in {"respuesta", NO_ANSWER_MESSAGE, Undefined},
            h \in {JTrue, JFalse, Undefined}}

GeneratorReplies ==
  {[fenced |-> f, text |-> t, value |-> NullAnswer] :
     f \in BOOLEAN, t \in {"null", "", "garbage"}}
    \cup {[fenced |-> f, text |-> "json", value |-> v] :
            f \in BOOLEAN, v \in JsonAnswers}

\* raw.trim().replace(fences, "").trim(): the fences go, the content stays.
Cleaned(raw) == [raw EXCEPT !.fenced = FALSE]

\* raw.trim() as text, for the raw-text answer.
RawTrimmed(raw) ==
  LET body == CASE raw.text = "garbage" -> "texto libre"
                [] raw.text = "null" -> "null"
                [] raw.text = "" -> ""
                [] OTHER -> "json"
  IN  IF raw.fenced THEN "<fence>" \o body \o "<fence>" ELSE body

\* JSON.parse(cleaned): throws on text that is not JSON (the empty text too);
\* the literal null parses to null.
parseJSON(raw, null) ==
  LET cleaned == Cleaned(raw)
  IN  CASE cleaned.text = "json" -> [threw |-> FALSE, value |-> cleaned.value]
        [] cleaned.text = "null" -> [threw |-> FALSE, value |-> null]
        [] OTHER -> [threw |-> TRUE, value |-> null]

\* runDataChecker, from the model's reply on.
runDataChecker(raw) ==
  LET cleaned == Cleaned(raw)
      parsed == parseJSON(cleaned, NullDecision)
  IN  IF cleaned.text = "null" \/ cleaned.text = ""
      THEN NullDecision
      ELSE IF parsed.threw THEN NullDecision ELSE parsed.value

\* checkerResult?.relevant_documents?.length ?? 0
SelectedCount(checkerResult) ==
  IF checkerResult.rd.tag = "array" \/ checkerResult.rd.tag = "string"
  THEN IF checkerResult.rd.tag = "string" THEN 1 ELSE Len(checkerResult.rd.items)
  ELSE 0

\* A result of validateAndGetRelevantChunks, or the TypeError it raises.
ValidationError ==
  [threw |-> TRUE, chunks |-> <<>>, hadValidation |-> FALSE, hadFallback |-> FALSE,
   rejectedCount |-> 0, originalCount |-> 0]

\* Mutant of validateAndGetRelevantChunks: the fallback hands on every
\* candidate instead of the first two.
validateFallbackUncut(checkerResult, originalChunks) ==
  LET validChunkIds == Range(ChunkIds(originalChunks))
      rd == checkerResult.rd
      docs == IF rd.tag = "array" THEN rd.items ELSE <<>>
      typeError == rd.tag \in {"number", "string"}
                     \/ \E i \in DOMAIN docs : docs[i].kind = "null"
      IsValid(d) == d.kind = "doc" /\ d.id \in validChunkIds
      validatedDocs == SelectSeq(docs, IsValid)
      IsSelected(c) == \E i \in DOMAIN validatedDocs : validatedDocs[i].id = c.chunk_id
  IN  IF typeError THEN ValidationError
      ELSE IF Len(validatedDocs) > 0
      THEN [threw |-> FALSE, chunks |-> SelectSeq(originalChunks, IsSelected),
            hadValidation |-> TRUE, hadFallback |-> FALSE,
            rejectedCount |-> SelectedCount(checkerResult) - Len(validatedDocs),
            originalCount |-> SelectedCount(checkerResult)]
      ELSE [threw |-> FALSE, chunks |-> originalChunks,
            hadValidation |-> FALSE, hadFallback |-> TRUE,
            rejectedCount |-> SelectedCount(checkerResult) - Len(validatedDocs),
            originalCount |-> SelectedCount(checkerResult)]

\* Mutant of validateAndGetRelevantChunks: the selection follows the order in
\* which the filter listed the identifiers, not the retrieval order.
validateInFilterOrder(checkerResult, originalChunks) ==
  LET validChunkIds == Range(ChunkIds(originalChunks))
      rd == checkerResult.rd
      docs == IF rd.tag = "array" THEN rd.items ELSE <<>>
      typeError == rd.tag \in {"number", "string"}
                     \/ \E i \in DOMAIN docs : docs[i].kind = "null"
      IsValid(d) == d.kind = "doc" /\ d.id \in validChunkIds
      validatedDocs == SelectSeq(docs, IsValid)
      ChunkOf(id) == originalChunks[CHOOSE i \in DOMAIN originalChunks :
                                      originalChunks[i].chunk_id = id]
  IN  IF typeError THEN ValidationError
      ELSE IF Len(validatedDocs) > 0
      THEN [threw |-> FALSE,
            chunks |-> [i \in DOMAIN validatedDocs |-> ChunkOf(validatedDocs[i].id)],
            hadValidation |-> TRUE, hadFallback |-> FALSE,
            rejectedCount |-> SelectedCount(checkerResult) - Len(validatedDocs),
            originalCount |-> SelectedCount(checkerResult)]
      ELSE [threw |-> FALSE, chunks |-> SliceFromStart(originalChunks, FallbackSize),
            hadValidation |-> FALSE, hadFallback |-> TRUE,
            rejectedCount |-> SelectedCount(checkerResult) - Len(validatedDocs),
            originalCount |-> SelectedCount(checkerResult)]

\* Mutant of hallucinationWarning: the warning is written only where the
\* fallback is taken, when every selected identifier was rejected.
hallucinationWarningOnFallback(rejectedCount, originalCount) ==
  IF rejectedCount > 0 /\ rejectedCount = originalCount
  THEN <<[rejected |-> rejectedCount, of |-> originalCount]>>
  ELSE <<>>

\* if (rejectedCount > 0) console.warn("data_checker hallucinated
\* rejectedCount/originalCount IDs - rejected"): the warnings written.
hallucinationWarning(rejectedCount, originalCount) ==
  IF rejectedCount > 0
  THEN <<[rejected |-> rejectedCount, of |-> originalCount]>>
  ELSE <<>>

\* Mutant of validateAndGetRelevantChunks: the validated selection is cut to
\* the two documents the filter is told to select at most.
validateCapped(checkerResult, originalChunks) ==
  LET validChunkIds == Range(ChunkIds(originalChunks))
      rd == checkerResult.rd
      docs == IF rd.tag = "array" THEN rd.items ELSE <<>>
      typeError == rd.tag \in {"number", "string"}
                     \/ \E i \in DOMAIN docs : docs[i].kind = "null"
      IsValid(d) == d.kind = "doc" /\ d.id \in validChunkIds
      validatedDocs == SelectSeq(docs, IsValid)
      IsSelected(c) == \E i \in DOMAIN validatedDocs : validatedDocs[i].id = c.chunk_id
  IN  IF typeError THEN ValidationError
      ELSE IF Len(validatedDocs) > 0
      THEN [threw |-> FALSE,
            chunks |-> SliceFromStart(SelectSeq(originalChunks, IsSelected), SelectionCap),
            hadValidation |-> TRUE, hadFallback |-> FALSE,
            rejectedCount |-> SelectedCount(checkerResult) - Len(validatedDocs),
            originalCount |-> SelectedCount(checkerResult)]
      ELSE [threw |-> FALSE, chunks |-> SliceFromStart(originalChunks, FallbackSize),
            hadValidation |-> FALSE, hadFallback |-> TRUE,
            rejectedCount |-> SelectedCount(checkerResult) - Len(validatedDocs),
            originalCount |-> SelectedCount(checkerResult)]

validateAndGetRelevantChunks(checkerResult, originalChunks) ==
  LET validChunkIds == Range(ChunkIds(originalChunks))
      rd == checkerResult.rd
      \* (checkerResult?.relevant_documents ?? [])
      docs == IF rd.tag = "array" THEN rd.items ELSE <<>>
      \* .filter is not a function on a number or a string; d.id of null throws
      typeError == rd.tag \in {"number", "string"}
                     \/ \E i \in DOMAIN docs : docs[i].kind = "null"
      IsValid(d) == d.kind = "doc" /\ d.id \in validChunkIds
      validatedDocs == SelectSeq(docs, IsValid)
      originalCount == SelectedCount(checkerResult)
      rejectedCount == originalCount - Len(validatedDocs)
      IsSelected(c) == \E i \in DOMAIN validatedDocs : validatedDocs[i].id = c.chunk_id
  IN  IF typeError THEN ValidationError
      ELSE IF Len(validatedDocs) > 0
      THEN [threw |-> FALSE, chunks |-> SelectSeq(originalChunks, IsSelected),
            hadValidation |-> TRUE, hadFallback |-> FALSE,
            rejectedCount |-> rejectedCount, originalCount |-> originalCount]
      ELSE [threw |-> FALSE, chunks |-> SliceFromStart(originalChunks, FallbackSize),
            hadValidation |-> FALSE, hadFallback |-> TRUE,
            rejectedCount |-> rejectedCount, originalCount |-> originalCount]

\* Mutant of runRespuestaFinal: the fallback answer is the cleaned text (the
\* fences stripped), not the raw reply.
runRespuestaFinalCleaned(raw) ==
  LET parsed == parseJSON(raw, NullAnswer)
  IN  IF parsed.threw
      THEN [type |-> "object", respuesta |-> RawTrimmed(Cleaned(raw)),
            logica |-> GenericLogica, docuementacion |-> "", handoff |-> JFalse]
      ELSE parsed.value

\* runRespuestaFinal of the layered pipeline, from the model's reply on.
runRespuestaFinal(raw) ==
  LET parsed == parseJSON(raw, NullAnswer)
  IN  IF parsed.threw
      THEN [type |-> "object", respuesta |-> RawTrimmed(raw), logica |-> GenericLogica,
            docuementacion |-> "", handoff |-> JFalse]
      ELSE parsed.value

\* runRespuestaFinal of rag.ts: the same, its fallback carries no handoff field.
ragRunRespuestaFinal(raw) ==
  LET parsed == parseJSON(raw, NullAnswer)
  IN  IF parsed.threw
      THEN [type |-> "object", respuesta |-> RawTrimmed(raw), logica |-> GenericLogica,
            docuementacion |-> "", handoff |-> Undefined]
      ELSE parsed.value

\* ------------------------------------------------------------------ state
VARIABLES
  entry,               \* "index" (layered, dist/index.js) or "rag" (dist/rag.js)
  isProd,              \* NODE_ENV === "production"
  dbColumnDim,         \* N of the embedding vector(N) column; 0: no such column
  modelDim,            \* width of the embedding model's output
  corpus,              \* chunk_ids of the rows of document_chunks
  clients,             \* the request slots that send traffic
  server,              \* where the process is: config (module load), checkDB,
                       \* detectDimensions, listening, exited
  startupTrace,        \* the startup steps run so far, each with its outcome
  EFFECTIVE_DIM,
  TRUNCATE_EMBEDDING,
  truncationWarnings,  \* how often the reduced-quality warning was written
  req                  \* per request slot: the handler's position and locals

vars == <<entry, isProd, dbColumnDim, modelDim, corpus, clients, server,
          startupTrace, EFFECTIVE_DIM, TRUNCATE_EMBEDDING, truncationWarnings, req>>

environment == <<entry, isProd, dbColumnDim, modelDim, corpus, clients>>
dimensionState == <<EFFECTIVE_DIM, TRUNCATE_EMBEDDING>>

NoCalls == [embed |-> 0, retrieve |-> 0, filter |-> 0, fetch |-> 0, generate |-> 0]

NoResponse ==
  [status |-> 0, fields |-> {}, answer |-> Undefined, logic |-> Undefined,
   citation |-> Undefined, sources |-> <<>>, handoff |-> Undefined,
   escalated |-> Undefined]

\* A handler that has not run: no locals, no calls, no response.
NewRequest(route, question) ==
  [pc |-> "idle", route |-> route, question |-> question,
   embedding |-> <<>>, chunks |-> <<>>,
   filterText |-> Undefined, checkerResult |-> NullDecision,
   selectedIds |-> <<>>, relevantChunks |-> <<>>, hadFallback |-> FALSE,
   rejectedCount |-> 0, warnings |-> <<>>,
   generatorInput |-> <<>>, calls |-> NoCalls, failedStage |-> "none",
   response |-> NoResponse]

\* The handler returns: its response is sent and its locals are gone.  What was
\* retrieved, what was handed to the generator and the calls made stay on record.
Finish(request, response, failedStage) ==
  [NewRequest(request.route, request.question) EXCEPT
     !.pc = "done", !.chunks = request.chunks,
     !.generatorInput = request.generatorInput, !.calls = request.calls,
     !.failedStage = failedStage, !.response = response]

\* res.status(400).json({ error })
BadRequest == [NoResponse EXCEPT !.status = 400, !.fields = {"error"}]

\* catch (err) { throw err } in the controller, res.status(500).json({ error })
\* in the route; rag.ts answers 500 from its own catch.
InternalError == [NoResponse EXCEPT !.status = 500, !.fields = {"error"}]

\* Mutant of RespondError: a failed call is answered as an escalation.
RespondErrorAsEscalation(request, stage) ==
  Finish(request,
         [NoResponse EXCEPT !.status = 200, !.fields = {"answer", "sources", "handoff"},
            !.answer = NO_ANSWER_MESSAGE, !.handoff = JTrue],
         stage)

RespondError(request, stage) == Finish(request, InternalError, stage)

\* An error thrown outside the handler's try block: the handler's promise
\* rejects and Express answers 500 from its default error handler, not JSON.
UnhandledError == [NoResponse EXCEPT !.status = 500]

\* rag.ts: res.json({ answer: NO_ANSWER_MESSAGE, sources: [], escalated: true })
\* and res.json({ replyText: NO_ANSWER_MESSAGE })
RagEscalation(route) ==
  IF route = "/ask"
  THEN [NoResponse EXCEPT !.status = 200, !.fields = {"answer", "sources", "escalated"},
          !.answer = NO_ANSWER_MESSAGE, !.escalated = JTrue]
  ELSE [NoResponse EXCEPT !.status = 200, !.fields = {"replyText"},
          !.answer = NO_ANSWER_MESSAGE]

\* rag.ts: the answer of respuesta_final with its sources, escalated: false
RagAnswer(route, finalAnswer, relevantChunks) ==
  IF route = "/ask"
  THEN [NoResponse EXCEPT !.status = 200,
          !.fields = {"answer", "logic", "citation", "sources", "escalated"},
          !.answer = finalAnswer.respuesta, !.logic = finalAnswer.logica,
          !.citation = finalAnswer.docuementacion,
          !.sources = ChunkIds(relevantChunks), !.escalated = JFalse]
  ELSE [NoResponse EXCEPT !.status = 200, !.fields = {"replyText"},
          !.answer = finalAnswer.respuesta]

\* Mutant of PipelineAnswer: the sources are numbered by position instead of
\* carrying the identifiers of the chunks the answer was generated from.
PipelineAnswerPositions(route, finalAnswer, relevantChunks) ==
  IF route = "/ask"
  THEN [NoResponse EXCEPT !.status = 200,
          !.fields = {"answer", "logic", "sources", "handoff"},
          !.answer = finalAnswer.respuesta, !.logic = finalAnswer.logica,
          !.sources = [i \in 1..Len(relevantChunks) |-> i],
          !.handoff = finalAnswer.handoff]
  ELSE [NoResponse EXCEPT !.status = 200, !.fields = {"replyText", "handoff"},
          !.answer = finalAnswer.respuesta, !.handoff = finalAnswer.handoff]

\* Mutant of PipelineAnswer: the minimal pipeline does not hand the generator's
\* flag on, /v1/resolve always reports handoff false.
PipelineAnswerResolveNeverHandsOff(route, finalAnswer, relevantChunks) ==
  IF route = "/ask"
  THEN [NoResponse EXCEPT !.status = 200,
          !.fields = {"answer", "logic", "sources", "handoff"},
          !.answer = finalAnswer.respuesta, !.logic = finalAnswer.logica,
          !.sources = ChunkIds(relevantChunks), !.handoff = finalAnswer.handoff]
  ELSE [NoResponse EXCEPT !.status = 200, !.fields = {"replyText", "handoff"},
          !.answer = finalAnswer.respuesta, !.handoff = JFalse]

\* executeRAGPipeline's result as ask.route.ts sends it, and
\* executeRAGPipelineMinimal's as resolve.route.ts sends it.
PipelineAnswer(route, finalAnswer, relevantChunks) ==
  IF route = "/ask"
  THEN [NoResponse EXCEPT !.status = 200,
          !.fields = {"answer", "logic", "sources", "handoff"},
          !.answer = finalAnswer.respuesta, !.logic = finalAnswer.logica,
          !.sources = ChunkIds(relevantChunks), !.handoff = finalAnswer.handoff]
  ELSE [NoResponse EXCEPT !.status = 200, !.fields = {"replyText", "handoff"},
          !.answer = finalAnswer.respuesta, !.handoff = finalAnswer.handoff]

\* ---------------------------------------------------------------- startup
CorpusSizes == {0, 1, MaxCorpus}

Init ==
  /\ entry \in {"index", "rag"}
  /\ isProd \in BOOLEAN
  /\ dbColumnDim \in 0..MaxDim
  /\ modelDim \in 1..MaxDim
  /\ corpus \in {1..n : n \in CorpusSizes}
  /\ clients = {"r1"}
  /\ server = "config"
  /\ startupTrace = <<>>
  /\ EFFECTIVE_DIM = 0
  /\ TRUNCATE_EMBEDDING = FALSE
  /\ truncationWarnings = 0
  /\ req = [r \in Reqs |-> NewRequest("/ask", Undefined)]

\* A startup step and how it ended (ok: it returned; otherwise it threw).
Ran(step, ok) == [step |-> step, ok |-> ok]

\* Module load: the loop over REQUIRED_ENV throws on a missing variable, which
\* ends the process before startup() is called.  index.ts goes on to checkDB,
\* rag.ts to detectDimensions.
ValidateEnv ==
  /\ server = "config"
  /\ \E ok \in BOOLEAN :
       /\ server' = IF ~ok THEN "exited"
                     ELSE IF entry = "index" THEN "checkDB" ELSE "detectDimensions"
       /\ startupTrace' = Append(startupTrace, Ran("config", ok))
  /\ UNCHANGED <<environment, dimensionState, truncationWarnings, req>>

\* Mutant of CheckDB: a failed database check is logged and startup goes on.
CheckDBIgnored ==
  /\ server = "checkDB"
  /\ \E ok \in BOOLEAN :
       /\ server' = "detectDimensions"
       /\ startupTrace' = Append(startupTrace, Ran("checkDB", ok))
  /\ UNCHANGED <<environment, dimensionState, truncationWarnings, req>>

\* index.ts startup(): await checkDB(); a throw ends in process.exit(1).
CheckDB ==
  /\ server = "checkDB"
  /\ \E ok \in BOOLEAN :
       /\ server' = IF ok THEN "detectDimensions" ELSE "exited"
       /\ startupTrace' = Append(startupTrace, Ran("checkDB", ok))
  /\ UNCHANGED <<environment, dimensionState, truncationWarnings, req>>

\* Mutant of detectDimensions: a model narrower than the stored column is let
\* through outside production instead of being refused.
detectDimensionsPadding(probeOk) ==
  IF dbColumnDim = 0
  THEN [threw |-> TRUE, dim |-> EFFECTIVE_DIM, truncate |-> TRUNCATE_EMBEDDING,
        warned |-> 0]
  ELSE IF ~probeOk
  THEN [threw |-> TRUE, dim |-> dbColumnDim, truncate |-> TRUNCATE_EMBEDDING,
        warned |-> 0]
  ELSE IF dbColumnDim = modelDim
  THEN [threw |-> FALSE, dim |-> dbColumnDim, truncate |-> TRUNCATE_EMBEDDING,
        warned |-> 0]
  ELSE IF isProd
  THEN [threw |-> TRUE, dim |-> dbColumnDim, truncate |-> TRUNCATE_EMBEDDING,
        warned |-> 0]
  ELSE IF modelDim > dbColumnDim
  THEN [threw |-> FALSE, dim |-> dbColumnDim, truncate |-> TRUE, warned |-> 1]
  ELSE [threw |-> FALSE, dim |-> dbColumnDim, truncate |-> TRUNCATE_EMBEDDING,
        warned |-> 0]

\* detectDimensions(), then app.listen; a throw ends in process.exit(1).
\* probeOk: the probe embedContent call returned.
detectDimensions(probeOk) ==
  IF dbColumnDim = 0
  THEN [threw |-> TRUE, dim |-> EFFECTIVE_DIM, truncate |-> TRUNCATE_EMBEDDING,
        warned |-> 0]
  ELSE IF ~probeOk
  THEN [threw |-> TRUE, dim |-> dbColumnDim, truncate |-> TRUNCATE_EMBEDDING,
        warned |-> 0]
  ELSE IF dbColumnDim = modelDim
  THEN [threw |-> FALSE, dim |-> dbColumnDim, truncate |-> TRUNCATE_EMBEDDING,
        warned |-> 0]
  ELSE IF isProd
  THEN [threw |-> TRUE, dim |-> dbColumnDim, truncate |-> TRUNCATE_EMBEDDING,
        warned |-> 0]
  ELSE IF modelDim > dbColumnDim
  THEN [threw |-> FALSE, dim |-> dbColumnDim, truncate |-> TRUE, warned |-> 1]
  ELSE [threw |-> TRUE, dim |-> dbColumnDim, truncate |-> TRUNCATE_EMBEDDING,
        warned |-> 0]

DetectDimensions ==
  /\ server = "detectDimensions"
  /\ \E probeOk \in BOOLEAN :
       LET d == detectDimensions(probeOk)
       IN  /\ EFFECTIVE_DIM' = d.dim
           /\ TRUNCATE_EMBEDDING' = d.truncate
           /\ truncationWarnings' = truncationWarnings + d.warned
           /\ server' = IF d.threw THEN "exited" ELSE "listening"
           /\ startupTrace' = Append(startupTrace, Ran("detectDimensions", ~d.threw))
  /\ UNCHANGED <<environment, req>>

\* --------------------------------------------------------------- requests
Called(request, stage) == [request EXCEPT !.calls[stage] = @ + 1]

\* Mutant of embedQuestion: the provider's vector goes on as it came.
embedQuestionUncut(values) == values

\* embedQuestion, from the provider's values on.
embedQuestion(values) ==
  IF TRUNCATE_EMBEDDING /\ Len(values) > EFFECTIVE_DIM
  THEN SubSeq(values, 1, EFFECTIVE_DIM)
  ELSE values

\* The route handler up to its first await: destructuring req.body throws a
\* TypeError when there is none; a missing or blank question is answered 400;
\* otherwise the pipeline starts with the embedding call.
Receive(r) ==
  /\ server = "listening"
  /\ r \in clients
  /\ req[r].pc \in {"idle", "done"}
  /\ \E route \in Routes, question \in QuestionInputs :
       req' = [req EXCEPT ![r] =
                 IF question = NoBody
                 THEN Finish(NewRequest(route, question), UnhandledError, "body")
                 ELSE IF IsMissingOrEmpty(question)
                 THEN Finish(NewRequest(route, question), BadRequest, "none")
                 ELSE Called([NewRequest(route, question) EXCEPT !.pc = "embedding"],
                             "embed")]
  /\ UNCHANGED <<environment, server, startupTrace, dimensionState, truncationWarnings>>

\* Mutant of EmbedReturn: the handler resets EFFECTIVE_DIM to the width of the
\* vector the provider returned.
EmbedReturnRecalibrating(r) ==
  /\ req[r].pc = "embedding"
  /\ req' = [req EXCEPT ![r] =
               Called([@ EXCEPT !.pc = "retrieving",
                                !.embedding =
                                  embedQuestion(ModelOutput(req[r].question, modelDim))],
                      "retrieve")]
  /\ EFFECTIVE_DIM' = modelDim
  /\ UNCHANGED <<environment, server, startupTrace, TRUNCATE_EMBEDDING,
               truncationWarnings>>

\* Mutant of EmbedReturn: embedQuestion writes the reduced-quality warning
\* each time it cuts a vector.
EmbedReturnWarning(r) ==
  /\ req[r].pc = "embedding"
  /\ req' = [req EXCEPT ![r] =
               Called([@ EXCEPT !.pc = "retrieving",
                                !.embedding =
                                  embedQuestion(ModelOutput(req[r].question, modelDim))],
                      "retrieve")]
  /\ truncationWarnings' =
       truncationWarnings + IF TRUNCATE_EMBEDDING /\ modelDim > EFFECTIVE_DIM THEN 1 ELSE 0
  /\ UNCHANGED <<environment, server, startupTrace, dimensionState>>

\* The embedding provider answers; retrieveChunks is called.
EmbedReturn(r) ==
  /\ req[r].pc = "embedding"
  /\ req' = [req EXCEPT ![r] =
               Called([@ EXCEPT !.pc = "retrieving",
                                !.embedding =
                                  embedQuestion(ModelOutput(req[r].question, modelDim))],
                      "retrieve")]
  /\ UNCHANGED <<environment, server, startupTrace, dimensionState, truncationWarnings>>

\* Mutant of RetrieveReturn: the query vector is kept in one place for the
\* whole process, so the search runs on the vector embedded last, which is
\* another request's when that request holds one.
RetrieveReturnSharedVector(r) ==
  /\ req[r].pc = "retrieving"
  /\ LET holders == {o \in Reqs \ {r} : req[o].embedding # <<>>}
         vector == IF holders = {} THEN req[r].embedding
                   ELSE req[CHOOSE o \in holders : TRUE].embedding
     IN  req' = [req EXCEPT ![r] =
                   Called([@ EXCEPT !.pc = "filtering",
                                    !.chunks =
                                      retrieveChunks(vector,
                                                     IF entry = "index" THEN TopK ELSE TOP_K,
                                                     corpus)],
                          "filter")]
  /\ UNCHANGED <<environment, server, startupTrace, dimensionState, truncationWarnings>>

\* The store answers the similarity query; runDataChecker is called.
RetrieveReturn(r) ==
  /\ req[r].pc = "retrieving"
  /\ req' = [req EXCEPT ![r] =
               Called([@ EXCEPT !.pc = "filtering",
                                !.chunks =
                                  retrieveChunks(req[r].embedding,
                                                 IF entry = "index" THEN TopK ELSE TOP_K,
                                                 corpus)],
                      "filter")]
  /\ UNCHANGED <<environment, server, startupTrace, dimensionState, truncationWarnings>>

\* Mutant of AfterFilter: validation takes its selection out of the candidate
\* list (splice for slice, an in-place filter), so the list the handler holds
\* afterwards is what validation left of it.
AfterFilterConsuming(request, raw) ==
  LET checkerResult == runDataChecker(raw)
      v == validateAndGetRelevantChunks(checkerResult, request.chunks)
      Left(c) == \A i \in DOMAIN v.chunks : v.chunks[i] # c
  IN  IF v.threw
      THEN RespondError([request EXCEPT !.filterText = raw.text,
                                        !.checkerResult = checkerResult], "validate")
      ELSE Called([request EXCEPT !.pc = "generating",
                                  !.chunks = SelectSeq(request.chunks, Left),
                                  !.filterText = raw.text,
                                  !.checkerResult = checkerResult,
                                  !.relevantChunks = v.chunks,
                                  !.hadFallback = v.hadFallback,
                                  !.rejectedCount = v.rejectedCount,
                                  !.warnings = hallucinationWarning(v.rejectedCount,
                                                                    v.originalCount),
                                  !.generatorInput = v.chunks],
                  "generate")

\* Mutant of AfterFilter: the generator is called with all the candidates,
\* while the sources are still taken from the validated selection.
AfterFilterUnfiltered(request, raw) ==
  LET checkerResult == runDataChecker(raw)
      v == validateAndGetRelevantChunks(checkerResult, request.chunks)
  IN  IF v.threw
      THEN RespondError([request EXCEPT !.filterText = raw.text,
                                        !.checkerResult = checkerResult], "validate")
      ELSE Called([request EXCEPT !.pc = "generating",
                                  !.filterText = raw.text,
                                  !.checkerResult = checkerResult,
                                  !.relevantChunks = v.chunks,
                                  !.hadFallback = v.hadFallback,
                                  !.rejectedCount = v.rejectedCount,
                                  !.warnings = hallucinationWarning(v.rejectedCount,
                                                                    v.originalCount),
                                  !.generatorInput = request.chunks],
                  "generate")

\* rag.controller.ts from the filter model's reply to the call of
\* runRespuestaFinal: runDataChecker's parsing, validateAndGetRelevantChunks.
AfterFilter(request, raw) ==
  LET checkerResult == runDataChecker(raw)
      v == validateAndGetRelevantChunks(checkerResult, request.chunks)
  IN  IF v.threw
      THEN RespondError([request EXCEPT !.filterText = raw.text,
                                        !.checkerResult = checkerResult], "validate")
      ELSE Called([request EXCEPT !.pc = "generating",
                                  !.filterText = raw.text,
                                  !.checkerResult = checkerResult,
                                  !.relevantChunks = v.chunks,
                                  !.hadFallback = v.hadFallback,
                                  !.rejectedCount = v.rejectedCount,
                                  !.warnings = hallucinationWarning(v.rejectedCount,
                                                                    v.originalCount),
                                  !.generatorInput = v.chunks],
                  "generate")

FilterReturn(r) ==
  /\ entry = "index"
  /\ req[r].pc = "filtering"
  /\ \E raw \in FilterReplies : req' = [req EXCEPT ![r] = AfterFilter(@, raw)]
  /\ UNCHANGED <<environment, server, startupTrace, dimensionState, truncationWarnings>>

\* rag.ts from the filter model's reply on: escalate when nothing was selected,
\* else fetch the selected identifiers from the store.
RagAfterFilter(request, raw) ==
  LET checkerResult == runDataChecker(raw)
      rd == checkerResult.rd
      \* relevant_documents.map(d => d.id): no map on a string, no id of null
      typeError == rd.tag = "string"
                     \/ \E i \in DOMAIN rd.items : rd.items[i].kind = "null"
      decided == [request EXCEPT !.filterText = raw.text,
                                 !.checkerResult = checkerResult]
  IN  IF SelectedCount(checkerResult) = 0
      THEN Finish(decided, RagEscalation(request.route), "none")
      ELSE IF typeError
      THEN RespondError(decided, "select")
      ELSE Called([decided EXCEPT !.pc = "fetching",
                                  !.selectedIds =
                                    [i \in DOMAIN rd.items |-> rd.items[i].id]],
                  "fetch")

RagFilterReturn(r) ==
  /\ entry = "rag"
  /\ req[r].pc = "filtering"
  /\ \E raw \in FilterReplies : req' = [req EXCEPT ![r] = RagAfterFilter(@, raw)]
  /\ UNCHANGED <<environment, server, startupTrace, dimensionState, truncationWarnings>>

\* rag.ts: the store answers the lookup by identifier; escalate when no row
\* came back, else call runRespuestaFinal with the rows.
RagAfterFetch(request, rows) ==
  IF Len(rows) = 0
  THEN Finish(request, RagEscalation(request.route), "none")
  ELSE Called([request EXCEPT !.pc = "generating",
                              !.relevantChunks = rows,
                              !.generatorInput = rows],
              "generate")

RagFetchReturn(r) ==
  /\ entry = "rag"
  /\ req[r].pc = "fetching"
  /\ \E rows \in Orderings(fetchChunksByIds(req[r].selectedIds, corpus)) :
       req' = [req EXCEPT ![r] = RagAfterFetch(@, rows)]
  /\ UNCHANGED <<environment, server, startupTrace, dimensionState, truncationWarnings>>

\* From the answer model's reply to the response.  Reading a field of null
\* raises a TypeError, which ends in the route's catch.
AfterGenerate(request, raw) ==
  LET finalAnswer == runRespuestaFinal(raw)
  IN  IF finalAnswer.type = "null"
      THEN RespondError(request, "format")
      ELSE Finish(request,
                  PipelineAnswer(request.route, finalAnswer, request.relevantChunks),
                  "none")

RagAfterGenerate(request, raw) ==
  LET finalAnswer == ragRunRespuestaFinal(raw)
  IN  IF finalAnswer.type = "null"
      THEN RespondError(request, "format")
      ELSE Finish(request,
                  RagAnswer(request.route, finalAnswer, request.relevantChunks),
                  "none")

GenerateReturn(r) ==
  /\ entry = "index"
  /\ req[r].pc = "generating"
  /\ \E raw \in GeneratorReplies : req' = [req EXCEPT ![r] = AfterGenerate(@, raw)]
  /\ UNCHANGED <<environment, server, startupTrace, dimensionState, truncationWarnings>>

RagGenerateReturn(r) ==
  /\ entry = "rag"
  /\ req[r].pc = "generating"
  /\ \E raw \in GeneratorReplies : req' = [req EXCEPT ![r] = RagAfterGenerate(@, raw)]
  /\ UNCHANGED <<environment, server, startupTrace, dimensionState, truncationWarnings>>

\* The awaited call of the current stage (embedding provider, store, prompt
\* store or generative provider) raises instead of answering.
AwaitedStages == {"embedding", "retrieving", "filtering", "fetching", "generating"}

\* Mutant of ProviderError: a failed embedding call is tried once more before
\* the error is let through.
ProviderErrorRetried(r) ==
  /\ req[r].pc \in AwaitedStages
  /\ req' = [req EXCEPT ![r] =
               IF @.pc = "embedding" /\ @.calls.embed < 2
               THEN Called(@, "embed")
               ELSE RespondError(@, @.pc)]
  /\ UNCHANGED <<environment, server, startupTrace, dimensionState, truncationWarnings>>

ProviderError(r) ==
  /\ req[r].pc \in AwaitedStages
  /\ req' = [req EXCEPT ![r] = RespondError(@, @.pc)]
  /\ UNCHANGED <<environment, server, startupTrace, dimensionState, truncationWarnings>>

Next ==
  \/ ValidateEnv
  \/ CheckDB
  \/ DetectDimensions
  \/ \E r \in Reqs :
       \/ Receive(r)
       \/ EmbedReturn(r)
       \/ RetrieveReturn(r)
       \/ FilterReturn(r)
       \/ RagFilterReturn(r)
       \/ RagFetchReturn(r)
       \/ GenerateReturn(r)
       \/ RagGenerateReturn(r)
       \/ ProviderError(r)

Spec == Init /\ [][Next]_vars

\* ------------------------------------------------ requests in flight at once
\* The layered server with both request slots sending traffic: the handlers'
\* steps interleave in every order.  The collaborators answer from a few
\* replies of each kind, so that two whole pipelines fit side by side.
ConcQuestions == {"", "q1", "q2"}

ConcDecisions ==
  {[type |-> "object", rd |-> [tag |-> "number", items |-> <<>>]]}
    \cup {[type |-> "object", rd |-> [tag |-> "array", items |-> s]] :
            s \in {<<DocEntry(1)>>, <<DocEntry(MaxCorpus), DocEntry(MaxCorpus - 1)>>,
                   <<DocEntry(InventedId)>>}}

ConcFilterReplies ==
  {raw \in FilterReplies :
     /\ ~raw.fenced
     /\ \/ raw.text \in {"null", "garbage"}
        \/ raw.text = "json" /\ raw.value \in ConcDecisions}

ConcGeneratorReplies ==
  {raw \in GeneratorReplies :
     /\ ~raw.fenced
     /\ \/ raw.text \in {"null", "garbage"}
        \/ /\ raw.text = "json" /\ raw.value.type = "object"
           /\ raw.value.respuesta = "respuesta" /\ raw.value.handoff # Undefined}

ConcInit ==
  /\ entry = "index"
  /\ isProd = FALSE
  /\ dbColumnDim = 1
  /\ modelDim \in 1..MaxDim
  /\ corpus = 1..MaxCorpus
  /\ clients = Reqs
  /\ server = "config"
  /\ startupTrace = <<>>
  /\ EFFECTIVE_DIM = 0
  /\ TRUNCATE_EMBEDDING = FALSE
  /\ truncationWarnings = 0
  /\ req = [r \in Reqs |-> NewRequest("/ask", Undefined)]

\* Receive, the question drawn from ConcQuestions.
ConcReceive(r) == Receive(r) /\ req'[r].question \in ConcQuestions

\* FilterReturn and GenerateReturn, the reply drawn from the smaller sets.
ConcFilterReturn(r) ==
  /\ entry = "index"
  /\ req[r].pc = "filtering"
  /\ \E raw \in ConcFilterReplies : req' = [req EXCEPT ![r] = AfterFilter(@, raw)]
  /\ UNCHANGED <<environment, server, startupTrace, dimensionState, truncationWarnings>>

ConcGenerateReturn(r) ==
  /\ entry = "index"
  /\ req[r].pc = "generating"
  /\ \E raw \in ConcGeneratorReplies : req' = [req EXCEPT ![r] = AfterGenerate(@, raw)]
  /\ UNCHANGED <<environment, server, startupTrace, dimensionState, truncationWarnings>>

ConcNext ==
  \/ ValidateEnv
  \/ CheckDB
  \/ DetectDimensions
  \/ \E r \in Reqs :
       \/ ConcReceive(r)
       \/ EmbedReturn(r)
       \/ RetrieveReturn(r)
       \/ ConcFilterReturn(r)
       \/ ConcGenerateReturn(r)
       \/ ProviderError(r)

ConcSpec == ConcInit /\ [][ConcNext]_vars

\* ------------------------------------------------- fetchChunksByIds alone
\* fetchChunksByIds applied to every list of up to MaxSel identifiers (stored
\* ones, an invented one, repeats) against every corpus of up to MaxCorpus rows,
\* on a server that has started.
FetchInit ==
  /\ entry \in {"index", "rag"}
  /\ isProd = FALSE
  /\ dbColumnDim = 1
  /\ modelDim = 1
  /\ corpus \in {1..n : n \in 0..MaxCorpus}
  /\ clients = {"r1"}
  /\ server = "listening"
  /\ startupTrace = IF entry = "index"
                    THEN <<Ran("config", TRUE), Ran("checkDB", TRUE),
                           Ran("detectDimensions", TRUE)>>
                    ELSE <<Ran("config", TRUE), Ran("detectDimensions", TRUE)>>
  /\ EFFECTIVE_DIM = 1
  /\ TRUNCATE_EMBEDDING = FALSE
  /\ truncationWarnings = 0
  /\ \E ids \in SeqsUpTo(SelIds, MaxSel) :
       req = [r \in Reqs |->
                IF r = "r1"
                THEN [NewRequest("/ask", "q1") EXCEPT !.pc = "selected",
                                                      !.selectedIds = ids]
                ELSE NewRequest("/ask", Undefined)]

\* fetchChunksByIds(ids) up to its await: an empty list returns [] at once,
\* any other list sends the lookup to the store.
FetchCall(r) ==
  /\ req[r].pc = "selected"
  /\ req' = [req EXCEPT ![r] =
               IF Len(@.selectedIds) = 0
               THEN [@ EXCEPT !.pc = "fetched", !.relevantChunks = <<>>]
               ELSE Called([@ EXCEPT !.pc = "fetching"], "fetch")]
  /\ UNCHANGED <<environment, server, startupTrace, dimensionState, truncationWarnings>>

\* The store answers the lookup; fetchChunksByIds returns its rows.
FetchReturn(r) ==
  /\ req[r].pc = "fetching"
  /\ \E rows \in Orderings(fetchChunksByIds(req[r].selectedIds, corpus)) :
       req' = [req EXCEPT ![r] = [@ EXCEPT !.pc = "fetched", !.relevantChunks = rows]]
  /\ UNCHANGED <<environment, server, startupTrace, dimensionState, truncationWarnings>>

FetchNext == \E r \in Reqs : FetchCall(r) \/ FetchReturn(r)

FetchSpec == FetchInit /\ [][FetchNext]_vars

\* ------------------------------------------------ an over-selecting filter
\* The layered server, started, with a filter model that ignores its prompt's
\* cap: every decision lists more than SelectionCap distinct identifiers, as
\* many as a candidate list can hold, stored ones and an invented one, in any
\* order.
OverSelections ==
  UNION {Orderings({DocEntry(i) : i \in S}) :
           S \in {T \in SUBSET SelIds :
                    Cardinality(T) > SelectionCap /\ Cardinality(T) <= TopK}}

OverFilterReplies ==
  {[fenced |-> FALSE, text |-> "json",
    value |-> [type |-> "object", rd |-> [tag |-> "array", items |-> s]]] :
     s \in OverSelections}

OverInit ==
  /\ entry = "index"
  /\ isProd = FALSE
  /\ dbColumnDim = 1
  /\ modelDim = 1
  /\ corpus \in {1..n : n \in CorpusSizes}
  /\ clients = {"r1"}
  /\ server = "listening"
  /\ startupTrace = <<Ran("config", TRUE), Ran("checkDB", TRUE),
                      Ran("detectDimensions", TRUE)>>
  /\ EFFECTIVE_DIM = 1
  /\ TRUNCATE_EMBEDDING = FALSE
  /\ truncationWarnings = 0
  /\ req = [r \in Reqs |-> NewRequest("/ask", Undefined)]

\* FilterReturn, the reply drawn from the over-selecting ones.
OverFilterReturn(r) ==
  /\ entry = "index"
  /\ req[r].pc = "filtering"
  /\ \E raw \in OverFilterReplies : req' = [req EXCEPT ![r] = AfterFilter(@, raw)]
  /\ UNCHANGED <<environment, server, startupTrace, dimensionState, truncationWarnings>>

OverNext ==
  \E r \in Reqs :
    \/ Receive(r)
    \/ EmbedReturn(r)
    \/ RetrieveReturn(r)
    \/ OverFilterReturn(r)
    \/ ConcGenerateReturn(r)
    \/ ProviderError(r)

OverSpec == OverInit /\ [][OverNext]_vars

\* ----------------------------------------------------------------- claims
Layered == entry = "index"
Answered(r) == req[r].pc = "done" /\ req[r].response.status = 200
Candidates(r) == Range(ChunkIds(req[r].chunks))

\* The identifiers a decision selects: those of its well-formed entries.
SelectedIds(checkerResult) ==
  {checkerResult.rd.items[i].id :
     i \in {j \in DOMAIN checkerResult.rd.items : checkerResult.rd.items[j].kind = "doc"}}

\* C1: in every result of executeRAGPipeline / executeRAGPipelineMinimal, a true
\* handoff flag comes with no grounding candidates and the fixed escalation
\* message as the answer.
C1_HandoffImpliesEscalationResult ==
  \A r \in Reqs :
    (Layered /\ Answered(r) /\ req[r].response.handoff = JTrue)
      => /\ req[r].response.sources = <<>>
         /\ req[r].generatorInput = <<>>
         /\ req[r].response.answer = NO_ANSWER_MESSAGE

\* C2: a request whose retrieval returned no candidate never reaches the answer
\* generator, and its result is the escalation (handoff, the fixed message, no
\* candidates).
C2_EmptyRetrievalEscalatesWithoutGenerator ==
  \A r \in Reqs :
    (Layered /\ req[r].calls.filter > 0 /\ req[r].chunks = <<>>)
      => /\ req[r].calls.generate = 0
         /\ Answered(r) => /\ req[r].response.handoff = JTrue
                           /\ req[r].response.answer = NO_ANSWER_MESSAGE
                           /\ req[r].response.sources = <<>>

\* C3: every chunk handed to the answer generator, and every source listed in
\* the response, carries an identifier of a candidate retrieved earlier in the
\* same request.
C3_NoForeignIdentifierReachesGenerator ==
  \A r \in Reqs :
    /\ Range(ChunkIds(req[r].generatorInput)) \subseteq Candidates(r)
    /\ Range(req[r].response.sources) \subseteq Candidates(r)

\* No selected identifier survives validation: the filter outcome was null, its
\* reply was unparseable, or every identifier it selected is absent from the
\* candidates.
NoSurvivor(r) ==
  \/ req[r].filterText \in {"null", "", "garbage"}
  \/ req[r].checkerResult.type = "null"
  \/ SelectedIds(req[r].checkerResult) \cap Candidates(r) = {}

\* The validation step has returned a selection for r (it runs between the
\* filter's reply and the call of the generator).
Validated(r) == Layered /\ req[r].pc = "generating"

PositionIn(chunks, c) == CHOOSE i \in DOMAIN chunks : chunks[i] = c

\* C5: when a selected identifier exists among the candidates, the validated
\* selection is exactly the selected candidates, in retrieval order, and the
\* fallback flag is clear.
C5_SelectionInRetrievalOrder ==
  \A r \in Reqs :
    (Validated(r) /\ SelectedIds(req[r].checkerResult) \cap Candidates(r) # {})
      => LET sel == req[r].relevantChunks
         IN  /\ req[r].hadFallback = FALSE
             /\ Range(ChunkIds(sel)) = SelectedIds(req[r].checkerResult) \cap Candidates(r)
             /\ \A i \in DOMAIN sel : sel[i] \in Range(req[r].chunks)
             /\ \A i, j \in DOMAIN sel :
                  i < j => PositionIn(req[r].chunks, sel[i]) < PositionIn(req[r].chunks, sel[j])

\* C5 witness: the filter lists the two nearest candidates in reverse order;
\* the selection holds the two, in retrieval order.
C5_Witness ==
  \E r \in Reqs :
    /\ Validated(r) /\ Len(req[r].chunks) >= 3
    /\ req[r].checkerResult.rd.items
         = <<DocEntry(req[r].chunks[2].chunk_id), DocEntry(req[r].chunks[1].chunk_id)>>
    /\ ChunkIds(req[r].relevantChunks)
         = <<req[r].chunks[1].chunk_id, req[r].chunks[2].chunk_id>>
    /\ ~req[r].hadFallback

\* C6: with an empty candidate list, validation returns an empty selection and
\* does not report a fallback.
C6_EmptyCandidatesIsNotFallback ==
  \A r \in Reqs :
    (Validated(r) /\ req[r].chunks = <<>>)
      => /\ req[r].relevantChunks = <<>>
         /\ req[r].hadFallback = FALSE

\* C7: when the answer generator's reply carries handoff = true, the pipeline's
\* result is the escalation: handoff, the fixed escalation message, no
\* candidates, although candidates were handed to the generator.
C7_GeneratorHandoffYieldsEscalation ==
  [][\A r \in Reqs : \A raw \in GeneratorReplies :
       (/\ Layered /\ req[r].pc = "generating"
        /\ parseJSON(raw, NullAnswer).threw = FALSE
        /\ parseJSON(raw, NullAnswer).value.handoff = JTrue
        /\ req'[r] = AfterGenerate(req[r], raw))
         => /\ req'[r].response.status = 200
            /\ req'[r].response.handoff = JTrue
            /\ req'[r].response.answer = NO_ANSWER_MESSAGE
            /\ req'[r].response.sources = <<>>]_vars

\* C8: a completed request is a grounded answer (handoff false, at least one
\* grounding candidate), an escalation (handoff true) or a pipeline failure.
C8_ThreeOutcomes ==
  \A r \in Reqs :
    (Layered /\ req[r].pc = "done" /\ ~IsMissingOrEmpty(req[r].question))
      => \/ req[r].response.status = 500
         \/ req[r].response.status = 200 /\ req[r].response.handoff = JTrue
         \/ /\ req[r].response.status = 200 /\ req[r].response.handoff = JFalse
            /\ req[r].generatorInput # <<>>

C10_MalformedFilterReplyNeverThrows ==
  \A r \in Reqs : Layered => req[r].failedStage # "validate"

\* The replies of the answer model that JSON.parse rejects.
UnparseableReplies == {raw \in GeneratorReplies : parseJSON(raw, NullAnswer).threw}

\* C11: when JSON.parse rejects the answer model's reply, the request does not
\* fail: runRespuestaFinal returns the whole raw reply (trimmed) as the answer,
\* an empty citation, the generic rationale and handoff false, and the route
\* answers 200 with that answer, rationale and flag.
C11_UnparseableAnswerIsRawText ==
  [][\A r \in Reqs :
       (Layered /\ req[r].pc = "generating" /\ req'[r].pc = "done")
         => \A raw \in UnparseableReplies :
              req'[r] = AfterGenerate(req[r], raw)
                => /\ runRespuestaFinal(raw).respuesta = RawTrimmed(raw)
                   /\ runRespuestaFinal(raw).docuementacion = ""
                   /\ runRespuestaFinal(raw).logica = GenericLogica
                   /\ runRespuestaFinal(raw).handoff = JFalse
                   /\ req'[r].response.status = 200
                   /\ req'[r].response.answer = RawTrimmed(raw)
                   /\ req'[r].response.handoff = JFalse
                   /\ req[r].route = "/ask"
                        => req'[r].response.logic = GenericLogica]_vars

\* C11 witness: a fenced reply that is not JSON was answered 200 with the
\* fences still in the answer, on validated candidates.
C11_Witness ==
  \E r \in Reqs :
    /\ Layered /\ Answered(r) /\ req[r].generatorInput # <<>>
    /\ req[r].response.answer = "<fence>texto libre<fence>"
    /\ req[r].response.handoff = JFalse

\* C12: when the stored width s and the model width m have both been read,
\* detectDimensions ends Aligned (listening, no truncation) iff s = m, Truncate
\* (listening, truncation to s) iff s < m outside production, and Fatal (the
\* process exits) iff s < m in production or s > m.
C12_DimensionGuardTable ==
  [][(/\ server = "detectDimensions" /\ dbColumnDim # 0
      /\ EFFECTIVE_DIM' = detectDimensions(TRUE).dim
      /\ TRUNCATE_EMBEDDING' = detectDimensions(TRUE).truncate
      /\ server' = IF detectDimensions(TRUE).threw THEN "exited" ELSE "listening")
       => LET s == dbColumnDim
              m == modelDim
              Aligned == server' = "listening" /\ ~TRUNCATE_EMBEDDING'
              Truncate == /\ server' = "listening" /\ TRUNCATE_EMBEDDING'
                          /\ EFFECTIVE_DIM' = s
              Fatal == server' = "exited"
          IN  /\ Aligned <=> s = m
              /\ Truncate <=> (s < m /\ ~isProd)
              /\ Fatal <=> ((s < m /\ isProd) \/ s > m)]_vars

\* C12 witness: outside production the model is narrower than the stored
\* column, and the process has exited.
C12_Witness ==
  /\ server = "exited" /\ ~isProd
  /\ dbColumnDim > modelDim /\ EFFECTIVE_DIM = dbColumnDim

\* The request has an embedding in hand (embedQuestion has returned).
Embedded(r) == req[r].pc \in {"retrieving", "filtering", "fetching", "generating"}

\* C13: once the guard has ended in Truncate with stored width s, the vector
\* embedQuestion returns, which is the one handed to retrieval, has exactly s
\* components: the first s of the model's output for the question.
C13_TruncatedToStoredWidth ==
  \A r \in Reqs :
    (server = "listening" /\ TRUNCATE_EMBEDDING /\ Embedded(r))
      => /\ EFFECTIVE_DIM = dbColumnDim
         /\ Len(req[r].embedding) = dbColumnDim
         /\ \A i \in 1..dbColumnDim :
              req[r].embedding[i] = ModelOutput(req[r].question, modelDim)[i]

\* C13 witness: the model's output is wider than the stored column and the
\* vector handed to retrieval is shorter than that output.
C13_Witness ==
  \E r \in Reqs :
    /\ TRUNCATE_EMBEDDING /\ req[r].pc = "retrieving"
    /\ Len(req[r].embedding) = dbColumnDim
    /\ Len(req[r].embedding) < Len(ModelOutput(req[r].question, modelDim))

\* The startup steps of the entry point, all passed, in the order of the code.
StartupPassed ==
  IF Layered
  THEN <<Ran("config", TRUE), Ran("checkDB", TRUE), Ran("detectDimensions", TRUE)>>
  ELSE <<Ran("config", TRUE), Ran("detectDimensions", TRUE)>>

\* The dimension guard ran this many times.
GuardRuns ==
  Cardinality({i \in DOMAIN startupTrace : startupTrace[i].step = "detectDimensions"})

\* C14: a request is handled only while the server listens; the server listens
\* only after the environment check, the database check and the dimension
\* guard have passed, in that order, the guard having run exactly once and
\* ended Aligned or Truncate; once a startup step has thrown, the process has
\* exited, stays so, and no request is ever handled.
C14_ServesOnlyAfterStartup ==
  /\ [](/\ \A r \in Reqs : req[r].pc # "idle" => server = "listening"
        /\ server = "listening"
             => /\ startupTrace = StartupPassed
                /\ GuardRuns = 1
                /\ \/ dbColumnDim = modelDim /\ ~TRUNCATE_EMBEDDING
                   \/ /\ dbColumnDim < modelDim /\ ~isProd
                      /\ TRUNCATE_EMBEDDING /\ EFFECTIVE_DIM = dbColumnDim
        /\ (\E i \in DOMAIN startupTrace : ~startupTrace[i].ok)
             => /\ server = "exited"
                /\ \A r \in Reqs : req[r].pc = "idle")
  /\ [][server = "exited" => server' = "exited"]_vars

\* C14 witness: the layered server answered a request after its three startup
\* steps, the guard having ended in Truncate.
C14_Witness ==
  /\ Layered /\ server = "listening" /\ Len(startupTrace) = 3
  /\ TRUNCATE_EMBEDDING
  /\ \E r \in Reqs : Answered(r)

\* C15: once the server listens, no step of any request changes EFFECTIVE_DIM or
\* TRUNCATE_EMBEDDING: every request reads the pair startup computed.
C15_DimensionStateImmutable ==
  [][server = "listening" => UNCHANGED dimensionState]_vars

\* C15 witness: in Truncate mode a request holds the embedding of its question,
\* cut to the width startup stored.
C15_Witness ==
  \E r \in Reqs :
    /\ server = "listening" /\ TRUNCATE_EMBEDDING
    /\ req[r].pc = "retrieving" /\ Len(req[r].embedding) = EFFECTIVE_DIM
    /\ req[r].question = "q2"

\* The filter's decision is a non-empty list of well-formed entries whose
\* identifiers all belong to the candidates.
SelectsAmong(checkerResult, chunks) ==
  /\ checkerResult.rd.tag = "array" /\ Len(checkerResult.rd.items) > 0
  /\ \A i \in DOMAIN checkerResult.rd.items :
       /\ checkerResult.rd.items[i].kind = "doc"
       /\ checkerResult.rd.items[i].id \in Range(ChunkIds(chunks))

\* The candidates a decision selects, in retrieval order.
SelectedInOrder(checkerResult, chunks) ==
  LET IsSelected(c) == c.chunk_id \in SelectedIds(checkerResult)
  IN  SelectSeq(chunks, IsSelected)

\* The replies of the answer model from which runRespuestaFinal returns a
\* record whose handoff is false.
NotFlaggingReplies ==
  {raw \in GeneratorReplies :
     runRespuestaFinal(raw).type = "object" /\ runRespuestaFinal(raw).handoff = JFalse}

Retrieved(r) == req[r].pc = "filtering"

C18_EmptyCorpusReached ==
  \E r \in Reqs : Retrieved(r) /\ corpus = {} /\ req[r].chunks = <<>>

\* C19: fetchChunksByIds(ids) returns exactly the rows of the corpus whose
\* identifier is in ids, each once: identifiers that are not stored give fewer
\* rows and no error, and an empty ids list gives the empty result without a
\* lookup being sent to the store.
C19_FetchReturnsStoredIdsOnly ==
  \A r \in Reqs :
    req[r].pc = "fetched"
      => LET ids == req[r].selectedIds
             rows == req[r].relevantChunks
         IN  /\ Range(ChunkIds(rows)) = Range(ids) \cap corpus
             /\ Len(rows) = Cardinality(Range(ids) \cap corpus)
             /\ Len(rows) <= Len(ids)
             /\ req[r].failedStage = "none"
             /\ req[r].calls.fetch = (IF ids = <<>> THEN 0 ELSE 1)
             /\ ids = <<>> => rows = <<>>

\* C19 witness: of two identifiers asked for, one is stored and one is not;
\* one row came back.
C19_Witness ==
  \E r \in Reqs :
    /\ req[r].pc = "fetched" /\ Len(req[r].selectedIds) = 2
    /\ req[r].selectedIds[1] \in corpus /\ req[r].selectedIds[2] \notin corpus
    /\ Len(req[r].relevantChunks) = 1
    /\ req[r].relevantChunks[1].chunk_id = req[r].selectedIds[1]

\* The empty list: returned at once, no lookup sent, on a corpus that has rows.
C19_EmptyIdsReached ==
  \E r \in Reqs :
    /\ req[r].pc = "fetched" /\ req[r].selectedIds = <<>> /\ corpus # {}
    /\ req[r].calls.fetch = 0

\* Every local of r's handler derives from r's own question and r's own
\* earlier locals, and what r answers lists what r's generator was given.
OwnLineage(r) ==
  LET own == req[r]
      vector == embedQuestion(ModelOutput(own.question, modelDim))
      candidates == retrieveChunks(vector, TopK, corpus)
  IN  /\ Embedded(r) => own.embedding = vector
      /\ own.pc \in {"filtering", "generating"} => own.chunks = candidates
      /\ own.pc = "generating"
           => LET v == validateAndGetRelevantChunks(own.checkerResult, candidates)
              IN  /\ own.relevantChunks = v.chunks
                  /\ own.generatorInput = v.chunks
                  /\ own.hadFallback = v.hadFallback
      /\ Answered(r)
           => /\ own.chunks = candidates
              /\ Range(ChunkIds(own.generatorInput)) \subseteq Range(ChunkIds(candidates))
              /\ own.route = "/ask" => own.response.sources = ChunkIds(own.generatorInput)

\* What a handler can step to from the record it holds, given a collaborator's
\* reply or failure: nothing of another request enters.
OwnSuccessors(own) ==
  CASE own.pc \in {"idle", "done"} ->
         {IF IsMissingOrEmpty(question)
          THEN Finish(NewRequest(route, question), BadRequest, "none")
          ELSE Called([NewRequest(route, question) EXCEPT !.pc = "embedding"], "embed") :
            route \in Routes, question \in ConcQuestions}
    [] own.pc = "embedding" ->
         {Called([own EXCEPT !.pc = "retrieving",
                             !.embedding =
                               embedQuestion(ModelOutput(own.question, modelDim))],
                 "retrieve"),
          RespondError(own, own.pc)}
    [] own.pc = "retrieving" ->
         {Called([own EXCEPT !.pc = "filtering",
                             !.chunks = retrieveChunks(own.embedding, TopK, corpus)],
                 "filter"),
          RespondError(own, own.pc)}
    [] own.pc = "filtering" ->
         {AfterFilter(own, raw) : raw \in ConcFilterReplies}
           \cup {RespondError(own, own.pc)}
    [] own.pc = "generating" ->
         {AfterGenerate(own, raw) : raw \in ConcGeneratorReplies}
           \cup {RespondError(own, own.pc)}
    [] OTHER -> {}

\* C20: with two requests in flight and their awaited calls returning in any
\* order, a step of one request leaves the other's record untouched and takes
\* its own to what the handler computes from its own record and the reply it
\* received; at every moment each request's vector, candidates, selection and
\* sources derive from its own question.  Only EFFECTIVE_DIM and
\* TRUNCATE_EMBEDDING are read by both.
C20_RequestsAreIsolated ==
  /\ [](\A r \in Reqs : OwnLineage(r))
  /\ [][\A r \in Reqs :
          req'[r] # req[r]
            => /\ \A o \in Reqs \ {r} : req'[o] = req[o]
               /\ req'[r] \in OwnSuccessors(req[r])]_vars

\* C20 witness: two requests with different questions are both waiting for
\* the generator, each on its own candidates and its own selection.
C20_Witness ==
  /\ req["r1"].pc = "generating" /\ req["r2"].pc = "generating"
  /\ req["r1"].question # req["r2"].question
  /\ req["r1"].chunks # req["r2"].chunks
  /\ ~req["r1"].hadFallback /\ ~req["r2"].hadFallback
  /\ req["r1"].relevantChunks # req["r2"].relevantChunks

\* C21: within a request of the layered pipeline the stages run in the order
\* embed, retrieve, filter, validate, generate, each at most once and each
\* called only when the previous one has returned; the generator is called
\* with exactly the chunks validation produced, and the sources reported are
\* exactly those chunks.
C21_StagesInOrder ==
  /\ [](\A r \in Reqs :
          Layered
            => /\ \A stage \in DOMAIN req[r].calls : req[r].calls[stage] <= 1
               /\ req[r].calls.retrieve <= req[r].calls.embed
               /\ req[r].calls.filter <= req[r].calls.retrieve
               /\ req[r].calls.generate <= req[r].calls.filter
               /\ req[r].calls.fetch = 0
               /\ req[r].pc = "generating"
                    => /\ req[r].relevantChunks
                            = validateAndGetRelevantChunks(req[r].checkerResult,
                                                           req[r].chunks).chunks
                       /\ req[r].generatorInput = req[r].relevantChunks
               /\ (Answered(r) /\ req[r].route = "/ask")
                    => req[r].response.sources = ChunkIds(req[r].generatorInput))
  /\ [][\A r \in Reqs :
          Layered
            => /\ req'[r].pc = "embedding" => req[r].pc \in {"idle", "done"}
               /\ req'[r].pc = "retrieving" => req[r].pc = "embedding"
               /\ req'[r].pc = "filtering" => req[r].pc = "retrieving"
               /\ req'[r].pc = "generating" => req[r].pc = "filtering"
               /\ req'[r].calls.retrieve > req[r].calls.retrieve
                    => req[r].pc = "embedding" /\ req'[r].embedding # <<>>
               /\ req'[r].calls.filter > req[r].calls.filter
                    => req[r].pc = "retrieving"
               /\ req'[r].calls.generate > req[r].calls.generate
                    => req[r].pc = "filtering"]_vars

\* C21 witness: /ask has answered after one call of each stage, on a selection
\* shorter than the candidate list, and lists that selection as its sources.
C21_Witness ==
  \E r \in Reqs :
    /\ Layered /\ Answered(r) /\ req[r].route = "/ask"
    /\ req[r].calls = [NoCalls EXCEPT !.embed = 1, !.retrieve = 1,
                                       !.filter = 1, !.generate = 1]
    /\ req[r].generatorInput # <<>>
    /\ Len(req[r].generatorInput) < Len(req[r].chunks)
    /\ req[r].response.sources = ChunkIds(req[r].generatorInput)

\* C22: on the same request record and the same collaborator reply, the
\* layered pipeline and rag.ts decide alike: after the filter's reply either
\* both end the request, with the same response, or both go on; after the
\* generator's reply both send the same response (answer, sources, escalation
\* flag, fields).
C22_LayeredEqualsMonolith ==
  \A r \in Reqs :
    /\ req[r].pc = "filtering"
         => \A raw \in ConcFilterReplies :
              LET layered == AfterFilter(req[r], raw)
                  monolith == RagAfterFilter(req[r], raw)
              IN  /\ (layered.pc = "done") = (monolith.pc = "done")
                  /\ layered.pc = "done" => layered.response = monolith.response
    /\ req[r].pc = "generating"
         => \A raw \in ConcGeneratorReplies :
              AfterGenerate(req[r], raw).response = RagAfterGenerate(req[r], raw).response

\* C23: when the filter's decision selects no document (selected=0) the
\* request ends there: the final-answer stage is not called and the response
\* carries the fixed human-escalation text.
C23_ZeroSelectedStopsAfterFilter ==
  [][\A r \in Reqs :
       ( /\ req[r].pc = "filtering"
         /\ req'[r].pc # "filtering"
         /\ req'[r].failedStage = "none"
         /\ SelectedCount(req'[r].checkerResult) = 0 )
         => /\ req'[r].pc = "done"
            /\ req'[r].calls.generate = 0
            /\ req'[r].response.status = 200
            /\ req'[r].response.answer = NO_ANSWER_MESSAGE]_vars

\* C25: a request whose question (text) is missing, empty or blank is answered
\* 400 with an error body, and no stage of the pipeline is called for it.
C25_MissingQuestionIsRejected ==
  \A r \in Reqs :
    ( /\ req[r].pc = "done"
      /\ req[r].question = NoBody \/ IsMissingOrEmpty(req[r].question) )
      => /\ req[r].response.status = 400
         /\ req[r].response.fields = {"error"}
         /\ req[r].calls = NoCalls

\* The same request had it come in on the other route.
OnOtherRoute(request) ==
  [request EXCEPT !.route = IF @ = "/ask" THEN "/v1/resolve" ELSE "/ask"]

\* Two handlers stand at the same point with the same outcome: same position,
\* same calls made, same chunks handed to the generator, same status, same
\* text (answer or replyText) and same handoff flag.
AgreeOnOutcome(a, b) ==
  /\ a.pc = b.pc /\ a.calls = b.calls /\ a.failedStage = b.failedStage
  /\ a.relevantChunks = b.relevantChunks /\ a.generatorInput = b.generatorInput
  /\ a.response.status = b.response.status
  /\ a.response.answer = b.response.answer
  /\ Layered => a.response.handoff = b.response.handoff

OverSelects(request) ==
  LET rd == request.checkerResult.rd
      ids == SelectedIds(request.checkerResult)
  IN  /\ rd.tag = "array"
      /\ \A i \in DOMAIN rd.items : rd.items[i].kind = "doc"
      /\ Cardinality(ids) = Len(rd.items)
      /\ Len(rd.items) > SelectionCap
      /\ ids \subseteq Range(ChunkIds(request.chunks))

\* C26: neither the orchestrator nor validation enforces the cap of two: when
\* the filter selects n > 2 identifiers that are all candidates, the generator
\* is called with all n candidates and /ask reports all n as its sources.
C26_OverSelectionPassesThrough ==
  /\ [](\A r \in Reqs :
          (req[r].pc = "generating" /\ OverSelects(req[r]))
            => /\ Len(req[r].generatorInput) = Len(req[r].checkerResult.rd.items)
               /\ Range(ChunkIds(req[r].generatorInput))
                    = SelectedIds(req[r].checkerResult)
               /\ ~req[r].hadFallback /\ req[r].rejectedCount = 0)
  /\ [][\A r \in Reqs :
          ( /\ req[r].pc = "generating" /\ OverSelects(req[r])
            /\ req'[r].pc = "done" /\ req'[r].response.status = 200
            /\ req[r].route = "/ask" )
            => /\ req'[r].response.sources = ChunkIds(req[r].generatorInput)
               /\ Len(req'[r].response.sources) = Len(req[r].checkerResult.rd.items)]_vars

\* C26 witness: /ask has answered with as many sources as the candidate list
\* holds, TopK, twice the cap; only an over-selection yields that many.
C26_Witness ==
  \E r \in Reqs :
    /\ Answered(r) /\ req[r].route = "/ask"
    /\ Len(req[r].response.sources) = TopK
    /\ Len(req[r].response.sources) > SelectionCap
    /\ req[r].response.sources = ChunkIds(req[r].generatorInput)
    /\ req[r].response.sources = ChunkIds(req[r].chunks)

\* The entries of a decision that validation drops for a request: those whose
\* identifier (or lack of one) is not among the request's candidates.
DroppedEntries(request) ==
  LET items == request.checkerResult.rd.items
  IN  {i \in DOMAIN items :
         ~(items[i].kind = "doc" /\ items[i].id \in Range(ChunkIds(request.chunks)))}

\* C27: validation drops every selected entry whose identifier is not a
\* candidate of the request; it writes one rejection warning exactly when it
\* dropped at least one entry, with the number dropped out of the number
\* selected; when nothing is dropped no warning is written.
C27_RejectionsAreCounted ==
  \A r \in Reqs :
    (Layered /\ req[r].pc = "generating")
      => LET dropped == Cardinality(DroppedEntries(req[r]))
             selected == Len(req[r].checkerResult.rd.items)
         IN  /\ Range(ChunkIds(req[r].relevantChunks)) \subseteq Candidates(r)
             /\ ~req[r].hadFallback
                  => Range(ChunkIds(req[r].relevantChunks))
                       = SelectedIds(req[r].checkerResult) \cap Candidates(r)
             /\ req[r].rejectedCount = dropped
             /\ dropped > 0
                  => req[r].warnings = <<[rejected |-> dropped, of |-> selected]>>
             /\ dropped = 0 => req[r].warnings = <<>>

\* C27 witness: of two selected identifiers one was not a candidate; it was
\* dropped with the warning 1/2 and the other goes to the generator.
C27_Witness ==
  \E r \in Reqs :
    /\ Layered /\ req[r].pc = "generating" /\ ~req[r].hadFallback
    /\ Len(req[r].relevantChunks) = 1
    /\ req[r].warnings = <<[rejected |-> 1, of |-> 2]>>

\* C28: the warning about truncated embeddings and reduced quality is written
\* once, by the dimension guard at startup when it settles on truncation, and
\* by nothing else: a listening server has written it once if it truncates and
\* never otherwise, and no step of any request writes it again.
C28_TruncationWarnedOnce ==
  /\ [](/\ truncationWarnings <= 1
        /\ server = "listening"
             => truncationWarnings = IF TRUNCATE_EMBEDDING THEN 1 ELSE 0)
  /\ [][/\ server = "listening" => truncationWarnings' = truncationWarnings
        /\ truncationWarnings' # truncationWarnings
             => /\ server = "detectDimensions" /\ server' = "listening"
                /\ ~TRUNCATE_EMBEDDING /\ TRUNCATE_EMBEDDING'
                /\ req' = req]_vars

\* C28 witness: a truncating server has answered a request, its embedding cut
\* to the stored width, and the warning stands at one.
C28_Witness ==
  /\ server = "listening" /\ TRUNCATE_EMBEDDING /\ truncationWarnings = 1
  /\ \E r \in Reqs :
       /\ Answered(r)
       /\ req[r].calls.embed = 1 /\ req[r].calls.retrieve = 1
       /\ modelDim > EFFECTIVE_DIM

\* C29: when the embedding provider's call fails, the request ends at once with
\* that error (HTTP 500, an error body), after exactly one provider call: the
\* call is not repeated, no vector is made up in its place, and neither the
\* retrieval, the filter nor the generator is called.
C29_EmbeddingErrorSurfaces ==
  /\ [](\A r \in Reqs :
          (req[r].pc = "done" /\ req[r].failedStage = "embedding")
            => /\ req[r].response = InternalError
               /\ req[r].calls = [NoCalls EXCEPT !.embed = 1]
               /\ req[r].embedding = <<>> /\ req[r].chunks = <<>>
               /\ req[r].generatorInput = <<>>)
  /\ [][\A r \in Reqs :
          (req[r].pc = "embedding" /\ req'[r] # req[r])
            => \/ /\ req'[r].pc = "retrieving" /\ req'[r].embedding # <<>>
                  /\ req'[r].calls.embed = 1
               \/ /\ req'[r].pc = "done" /\ req'[r].failedStage = "embedding"
                  /\ req'[r].calls = req[r].calls]_vars

\* C29 witness: a request ended in the 500 of a failed embedding call, having
\* called the provider once and nothing else.
C29_Witness ==
  \E r \in Reqs :
    /\ req[r].pc = "done" /\ req[r].failedStage = "embedding"
    /\ req[r].response.status = 500
    /\ req[r].calls.embed = 1 /\ req[r].calls.retrieve = 0
    /\ req[r].calls.filter = 0 /\ req[r].calls.generate = 0

\* C30: whatever the generator replies, every successful result of the layered
\* pipeline carries a boolean handoff flag, never a missing one, and a string
\* as its answer.
C30_HandoffIsBooleanAnswerIsString ==
  \A r \in Reqs :
    (Layered /\ Answered(r))
      => /\ req[r].response.handoff \in {JTrue, JFalse}
         /\ req[r].response.answer # Undefined

====
